---------------------------- MODULE Spec2Model ----------------------------
(***************************************************************************)
(* A model of fleetdm-ntfy-webhook (main.go): the webhook handler, the     *)
(* notification builder and its helpers (query-name parser, classifier,    *)
(* column formatter), and the single outbound POST to ntfy.                *)
(*                                                                         *)
(* Go strings are modelled as sequences of one-character strings, so that  *)
(* matching, splitting, lower-casing, sorting and trimming are computed    *)
(* and not assumed.  A multi-line text (the output of formatColumns, the   *)
(* message body) is a sequence of line records, one record per line the    *)
(* code writes with a trailing "\n".                                       *)
(***************************************************************************)
EXTENDS Integers, Sequences, FiniteSets, TLC

VARIABLES
    pc,            \* position of the component under study
    method,        \* r.Method of the request being handled
    body,          \* the request body: a decoded payload, or why it is none
    notification,  \* what formatNotification returned: <<>> for nil, <<n>> for &n
    posts,         \* the http.Post calls sendToNtfy made for this request
    ntfyResult,    \* what the last http.Post returned
    status,        \* the HTTP status the handler answered (0: none yet)
    fullName,      \* parseQueryName's argument
    parsed,        \* parseQueryName's result
    category,      \* getPriority's / getTags' argument
    priority,      \* getPriority's result
    tags,          \* getTags' result
    columns,       \* formatColumns' argument
    formatted      \* formatColumns' result

vars == <<pc, method, body, notification, posts, ntfyResult, status,
          fullName, parsed, category, priority, tags, columns, formatted>>

handlerVars == <<method, body, notification, posts, ntfyResult, status>>
parseVars == <<fullName, parsed>>
classifyVars == <<category, priority, tags>>
columnVars == <<columns, formatted>>

Nil == "nil"

\* no request body yet; no http.Post result yet
NoBody == [kind |-> "none", Details |-> <<>>]
NoResult == [kind |-> "none", code |-> 0]

-----------------------------------------------------------------------------
(* Strings *)

Min(a, b) == IF a <= b THEN a ELSE b

\* s[from..] (1-based), the empty string when from > Len(s)
Suffix(s, from) == SubSeq(s, from, Len(s))

\* the index of the first c in s at or after from, 0 when there is none
IndexFrom(s, c, from) ==
    LET hits == {k \in from..Len(s) : s[k] = c}
    IN  IF hits = {} THEN 0 ELSE CHOOSE k \in hits : \A h \in hits : k <= h

\* the index of the last c in s, 0 when there is none
LastIndex(s, c) ==
    LET hits == {k \in 1..Len(s) : s[k] = c}
    IN  IF hits = {} THEN 0 ELSE CHOOSE k \in hits : \A h \in hits : k >= h

\* strings.Contains
Contains(s, sub) ==
    \E i \in 1..(Len(s) - Len(sub) + 1) : SubSeq(s, i, i + Len(sub) - 1) = sub

\* the regexp class \s of RE2: [\t\n\f\r ]
reSpace(c) == c \in {" ", "\t", "\n", "\f", "\r"}

\* unicode.IsSpace on the characters of the model
unicodeIsSpace(c) == c \in {" ", "\t", "\n", "\f", "\r"}

\* the length of the longest prefix of s made of \s characters
SpacePrefixLen(s) ==
    LET stops == {k \in 1..Len(s) : ~reSpace(s[k])}
    IN  IF stops = {} THEN Len(s)
        ELSE (CHOOSE k \in stops : \A h \in stops : k <= h) - 1

-----------------------------------------------------------------------------
(* parseQueryName *)

\* Whether \[([^\]]+)\]\s*(.+)$ matches s starting at index i.  [^\]]+ stops
\* at the first "]" after i and needs one character at least; \s* is greedy
\* but gives back so that .+ has one character; "." matches no "\n" and "$"
\* (no m flag) is the end of the text.
reCloseAt(s, i) == IndexFrom(s, "]", i + 1)

reSpaceTaken(s, i) ==
    LET rest == Suffix(s, reCloseAt(s, i) + 1)
    IN  Min(SpacePrefixLen(rest), Len(rest) - 1)

reMatchAt(s, i) ==
    /\ s[i] = "["
    /\ reCloseAt(s, i) > i + 1
    /\ reCloseAt(s, i) < Len(s)
    /\ LET rest == Suffix(s, reCloseAt(s, i) + 1)
       IN  \A k \in (reSpaceTaken(s, i) + 1)..Len(rest) : rest[k] # "\n"

\* regexp.FindStringSubmatch: the leftmost match, <<whole, group 1, group 2>>,
\* or the empty sequence (nil) when there is none
FindStringSubmatchKeepSpace(s) ==
    LET starts == {i \in 1..Len(s) : reMatchAt(s, i)}
    IN  IF starts = {} THEN <<>>
        ELSE LET i == CHOOSE k \in starts : \A h \in starts : k <= h
                 j == reCloseAt(s, i)
             IN  <<Suffix(s, i), SubSeq(s, i + 1, j - 1), Suffix(s, j + 1)>>

FindStringSubmatch(s) ==
    LET starts == {i \in 1..Len(s) : reMatchAt(s, i)}
    IN  IF starts = {} THEN <<>>
        ELSE LET i == CHOOSE k \in starts : \A h \in starts : k <= h
                 j == reCloseAt(s, i)
             IN  <<Suffix(s, i), SubSeq(s, i + 1, j - 1),
                   Suffix(s, j + 1 + reSpaceTaken(s, i))>>

\* strings.Split(s, "/")[len-1]: the text after the last "/"
LastPart(s) == Suffix(s, LastIndex(s, "/") + 1)

parseQueryNameLastBracket(name) ==
    LET starts == {i \in 1..Len(name) : reMatchAt(name, i)}
    IN  IF starts = {} THEN [category |-> <<"a", "l", "e", "r", "t">>, name |-> LastPart(name)]
        ELSE LET i == CHOOSE k \in starts : \A h \in starts : k >= h
                 j == reCloseAt(name, i)
             IN  [category |-> SubSeq(name, i + 1, j - 1),
                  name |-> Suffix(name, j + 1 + reSpaceTaken(name, i))]

parseQueryName(name) ==
    LET matches == FindStringSubmatch(name)
    IN  IF Len(matches) = 3
        THEN [category |-> matches[2], name |-> matches[3]]
        ELSE [category |-> <<"a", "l", "e", "r", "t">>, name |-> LastPart(name)]

-----------------------------------------------------------------------------
(* The query-name parser on its own: every name over NameAlphabet of at    *)
(* most MaxNameLen characters is parsed once.                              *)

MaxNameLen == 7

NameAlphabet == {"[", "]", " ", "\n", "/"}

Names == UNION {[1..n -> NameAlphabet] : n \in 0..MaxNameLen}

InitParse ==
    /\ pc = "parse"
    /\ fullName \in Names
    /\ parsed = Nil
    /\ method = Nil /\ body = NoBody /\ notification = <<>> /\ posts = <<>>
    /\ ntfyResult = NoResult /\ status = 0
    /\ category = <<>> /\ priority = 0 /\ tags = <<>>
    /\ columns = <<>> /\ formatted = <<>>

Parse ==
    /\ pc = "parse"
    /\ parsed' = parseQueryName(fullName)
    /\ pc' = "parsed"
    /\ UNCHANGED <<fullName, handlerVars, classifyVars, columnVars>>

SpecParse == InitParse /\ [][Parse]_vars

-----------------------------------------------------------------------------
(* Claims about parseQueryName *)

\* s[i..j] is a bracket pair "[X]" with X non-empty and free of "]"
BracketAt(s, i, j) ==
    /\ i + 1 < j
    /\ s[i] = "[" /\ s[j] = "]"
    /\ \A k \in (i + 1)..(j - 1) : s[k] # "]"

\* the text after index j with its leading whitespace skipped
TextAfter(s, j) == Suffix(s, j + 1 + SpacePrefixLen(Suffix(s, j + 1)))

\* "[X] Y": a bracket pair followed, after optional whitespace, by a
\* non-empty Y that runs to the end of the string
WellFormedAt(s, i, j) == BracketAt(s, i, j) /\ TextAfter(s, j) # <<>>

NoLineBreak(s) == \A k \in 1..Len(s) : s[k] # "\n"

Segments(s) ==
    {p \in (1..Len(s)) \X (1..Len(s)) :
        /\ BracketAt(s, p[1], p[2])
        /\ \A k \in (p[1] + 1)..(p[2] - 1) : s[k] # "["}

LastSegment(s) ==
    CHOOSE p \in Segments(s) : \A q \in Segments(s) : q[1] <= p[1]

FirstSegment(s) ==
    CHOOSE p \in Segments(s) : \A q \in Segments(s) : p[1] <= q[1]

\* C5 as stated: with several bracketed segments the rightmost one is used
\* (category its content, shortName the text after it).
C5_RightmostSegmentUsed ==
    ( /\ pc = "parsed"
      /\ Cardinality(Segments(fullName)) >= 2
      /\ TextAfter(fullName, LastSegment(fullName)[2]) # <<>> ) =>
        LET p == LastSegment(fullName)
        IN  /\ parsed.category = SubSeq(fullName, p[1] + 1, p[2] - 1)
            /\ parsed.name = TextAfter(fullName, p[2])

\* the first "[" of s that is not immediately followed by "]"
FirstOpen(s) ==
    LET opens == {i \in 1..(Len(s) - 1) : s[i] = "[" /\ s[i + 1] # "]"}
    IN  CHOOSE i \in opens : \A h \in opens : i <= h

\* C5 amended: in a name without line breaks that holds several bracketed
\* segments the leftmost bracket is used: the category runs from the first
\* "[" not immediately followed by "]" to the next "]", and shortName is all
\* the text after that "]" (leading whitespace skipped), later segments
\* included.
C5_LeftmostSegmentUsed ==
    ( /\ pc = "parsed"
      /\ Cardinality(Segments(fullName)) >= 2
      /\ NoLineBreak(fullName) ) =>
        LET i == FirstOpen(fullName)
            j == IndexFrom(fullName, "]", i + 1)
        IN  /\ parsed.category = SubSeq(fullName, i + 1, j - 1)
            /\ parsed.name = TextAfter(fullName, j)

\* C5 witness: two segments with different contents, the first one used and
\* the second one left in shortName
C5_Witness ==
    /\ pc = "parsed"
    /\ Cardinality(Segments(fullName)) >= 2
    /\ NoLineBreak(fullName)
    /\ LET p == FirstSegment(fullName)
           q == LastSegment(fullName)
       IN  /\ SubSeq(fullName, p[1] + 1, p[2] - 1)
                # SubSeq(fullName, q[1] + 1, q[2] - 1)
           /\ parsed.category = SubSeq(fullName, p[1] + 1, p[2] - 1)
           /\ parsed.name = Suffix(fullName, q[1])

-----------------------------------------------------------------------------
(* getPriority and getTags *)

UpperLetters == <<"A", "B", "C", "D", "E", "F", "G", "H", "I", "J", "K", "L", "M", "N", "O", "P", "Q", "R", "S", "T", "U", "V", "W", "X", "Y", "Z">>
LowerLetters == <<"a", "b", "c", "d", "e", "f", "g", "h", "i", "j", "k", "l", "m", "n", "o", "p", "q", "r", "s", "t", "u", "v", "w", "x", "y", "z">>

\* strings.ToLower on one character
toLowerChar(c) ==
    IF \E i \in 1..26 : UpperLetters[i] = c
    THEN LowerLetters[CHOOSE i \in 1..26 : UpperLetters[i] = c]
    ELSE c

\* strings.ToLower
ToLower(s) == [i \in 1..Len(s) |-> toLowerChar(s[i])]

kwC2 == <<"c", "2">>
kwExecution == <<"e", "x", "e", "c", "u", "t", "i", "o", "n">>
kwCredential == <<"c", "r", "e", "d", "e", "n", "t", "i", "a", "l">>
kwPersistence == <<"p", "e", "r", "s", "i", "s", "t", "e", "n", "c", "e">>
kwPrivilege == <<"p", "r", "i", "v", "i", "l", "e", "g", "e">>
kwDefense == <<"d", "e", "f", "e", "n", "s", "e">>
kwExfil == <<"e", "x", "f", "i", "l">>
kwLateral == <<"l", "a", "t", "e", "r", "a", "l">>
kwNetwork == <<"n", "e", "t", "w", "o", "r", "k">>

getPriority(cat) ==
    LET c == ToLower(cat)
    IN  IF Contains(c, kwC2) THEN 5
        ELSE IF Contains(c, kwExecution) THEN 5
        ELSE IF Contains(c, kwCredential) THEN 4
        ELSE IF Contains(c, kwPersistence) THEN 4
        ELSE IF Contains(c, kwPrivilege) THEN 4
        ELSE IF Contains(c, kwDefense) THEN 4
        ELSE IF Contains(c, kwExfil) THEN 5
        ELSE IF Contains(c, kwLateral) THEN 4
        ELSE 3

\* the switch of getTags in the order of getPriority's switch
getTagsPriorityOrder(cat) ==
    LET c == ToLower(cat)
    IN  <<"computer">> \o
        ( IF Contains(c, kwC2) THEN <<"warning", "satellite">>
          ELSE IF Contains(c, kwExecution) THEN <<"warning", "zap">>
          ELSE IF Contains(c, kwCredential) THEN <<"warning", "key">>
          ELSE IF Contains(c, kwPersistence) THEN <<"warning", "anchor">>
          ELSE IF Contains(c, kwPrivilege) THEN <<"warning", "crown">>
          ELSE IF Contains(c, kwExfil) THEN <<"rotating_light", "outbox_tray">>
          ELSE IF Contains(c, kwNetwork) THEN <<"globe_with_meridians">>
          ELSE <<"mag">> )

getTags(cat) ==
    LET c == ToLower(cat)
    IN  <<"computer">> \o
        ( IF Contains(c, kwC2) THEN <<"warning", "satellite">>
          ELSE IF Contains(c, kwExecution) THEN <<"warning", "zap">>
          ELSE IF Contains(c, kwPersistence) THEN <<"warning", "anchor">>
          ELSE IF Contains(c, kwCredential) THEN <<"warning", "key">>
          ELSE IF Contains(c, kwPrivilege) THEN <<"warning", "crown">>
          ELSE IF Contains(c, kwExfil) THEN <<"rotating_light", "outbox_tray">>
          ELSE IF Contains(c, kwNetwork) THEN <<"globe_with_meridians">>
          ELSE <<"mag">> )

-----------------------------------------------------------------------------
(* The classifier on its own: every category that is a concatenation of at *)
(* most MaxTokens tokens is classified, getPriority and getTags being      *)
(* called in either order.                                                 *)

MaxTokens == 2

CategoryTokens ==
    { kwC2, kwExecution, kwCredential, kwPersistence, kwPrivilege, kwDefense,
      kwExfil, kwLateral, kwNetwork,
      <<"C", "2">>, <<"E", "x", "f", "i", "l">>, <<"E", "X", "E", "C", "U", "T", "I", "O", "N">>, <<"c">>, <<"2">>, <<"d", "e", "t", "e", "c", "t", "i", "o", "n", "/">>, <<"x">> }

RECURSIVE Concat(_)
Concat(ss) == IF ss = <<>> THEN <<>> ELSE Head(ss) \o Concat(Tail(ss))

Categories ==
    {Concat(ts) : ts \in UNION {[1..n -> CategoryTokens] : n \in 0..MaxTokens}}

InitClassify ==
    /\ pc = "classify"
    /\ category \in Categories
    /\ priority = 0
    /\ tags = <<>>
    /\ method = Nil /\ body = NoBody /\ notification = <<>> /\ posts = <<>>
    /\ ntfyResult = NoResult /\ status = 0
    /\ fullName = <<>> /\ parsed = Nil
    /\ columns = <<>> /\ formatted = <<>>

CallGetPriority ==
    /\ pc = "classify"
    /\ priority = 0
    /\ priority' = getPriority(category)
    /\ UNCHANGED <<pc, category, tags, handlerVars, parseVars, columnVars>>

CallGetTags ==
    /\ pc = "classify"
    /\ tags = <<>>
    /\ tags' = getTags(category)
    /\ UNCHANGED <<pc, category, priority, handlerVars, parseVars, columnVars>>

NextClassify == CallGetPriority \/ CallGetTags

SpecClassify == InitClassify /\ [][NextClassify]_vars

-----------------------------------------------------------------------------
(* Claims about the classifier *)

\* the two tables as the specification lists them: <<keyword, result>>
PriorityTable ==
    << <<kwC2, 5>>, <<kwExecution, 5>>, <<kwCredential, 4>>,
       <<kwPersistence, 4>>, <<kwPrivilege, 4>>, <<kwDefense, 4>>,
       <<kwExfil, 5>>, <<kwLateral, 4>> >>

TagTable ==
    << <<kwC2, <<"warning", "satellite">> >>,
       <<kwExecution, <<"warning", "zap">> >>,
       <<kwPersistence, <<"warning", "anchor">> >>,
       <<kwCredential, <<"warning", "key">> >>,
       <<kwPrivilege, <<"warning", "crown">> >>,
       <<kwExfil, <<"rotating_light", "outbox_tray">> >>,
       <<kwNetwork, <<"globe_with_meridians">> >> >>

\* r is the result of the first entry of table whose keyword the lower-cased
\* category contains, or the default when no entry matches
IsFirstMatch(table, cat, default, r) ==
    \/ /\ \A i \in 1..Len(table) : ~Contains(ToLower(cat), table[i][1])
       /\ r = default
    \/ \E i \in 1..Len(table) :
          /\ Contains(ToLower(cat), table[i][1])
          /\ \A j \in 1..(i - 1) : ~Contains(ToLower(cat), table[j][1])
          /\ r = table[i][2]

\* C6: getPriority and getTags each return the result of the first entry, in
\* their own listed order, whose keyword the lower-cased category contains;
\* the tags start with "computer" followed by the tags of exactly one entry
\* and the priority is 3, 4 or 5.
C6_FirstListedMatchWins ==
    /\ priority # 0 =>
          /\ IsFirstMatch(PriorityTable, category, 3, priority)
          /\ priority \in {3, 4, 5}
    /\ tags # <<>> =>
          /\ Head(tags) = "computer"
          /\ IsFirstMatch(TagTable, category, <<"mag">>, Tail(tags))

\* C6 witness: a category holding two keywords whose order differs between
\* the two tables, classified by both functions
C6_Witness ==
    /\ Contains(ToLower(category), kwCredential)
    /\ Contains(ToLower(category), kwPersistence)
    /\ priority = 4
    /\ tags = <<"computer", "warning", "anchor">>

\* C7: a category containing c2, execution or exfil gets priority 5, and one
\* containing persistence or credential gets priority 4 or 5, whatever else
\* the category contains.
C7_UrgentKeywordsAreUrgent ==
    priority # 0 =>
        LET c == ToLower(category)
        IN  /\ ( Contains(c, kwC2) \/ Contains(c, kwExecution)
                 \/ Contains(c, kwExfil) ) => priority = 5
            /\ ( Contains(c, kwPersistence) \/ Contains(c, kwCredential) )
                  => priority \in {4, 5}

-----------------------------------------------------------------------------
(* formatColumns *)

\* the characters of the model's keys in ascending byte order
ByteOrder == <<"0", "1", "2", "3", "4", "5", "6", "7", "8", "9", "A", "B", "C", "D", "E", "F", "G", "H", "I", "J", "K", "L", "M", "N", "O", "P", "Q", "R", "S", "T", "U", "V", "W", "X", "Y", "Z", "_", "a", "b", "c", "d", "e", "f", "g", "h", "i", "j", "k", "l", "m", "n", "o", "p", "q", "r", "s", "t", "u", "v", "w", "x", "y", "z">>

byteRank(c) == CHOOSE i \in 1..Len(ByteOrder) : ByteOrder[i] = c

\* a < b as Go compares strings: byte-wise, a proper prefix first
RECURSIVE StringLess(_, _)
StringLess(a, b) ==
    IF b = <<>> THEN FALSE
    ELSE IF a = <<>> THEN TRUE
    ELSE IF Head(a) = Head(b) THEN StringLess(Tail(a), Tail(b))
    ELSE byteRank(Head(a)) < byteRank(Head(b))

\* sort.Strings on the keys of a map
RECURSIVE SortStrings(_)
SortStrings(ks) ==
    IF ks = {} THEN <<>>
    ELSE LET m == CHOOSE k \in ks : \A h \in ks \ {k} : StringLess(k, h)
         IN  <<m>> \o SortStrings(ks \ {m})

priorityFields ==
    << <<"p", "a", "t", "h">>, <<"n", "a", "m", "e">>, <<"c", "m", "d", "l", "i", "n", "e">>, <<"c", "o", "m", "m", "a", "n", "d">>, <<"c", "m", "d">>,
       <<"p", "a", "r", "e", "n", "t", "_", "p", "a", "t", "h">>, <<"p", "a", "r", "e", "n", "t", "_", "c", "m", "d">>, <<"u", "s", "e", "r">>, <<"u", "i", "d">>, <<"g", "i", "d">>,
       <<"l", "o", "c", "a", "l", "_", "a", "d", "d", "r", "e", "s", "s">>, <<"l", "o", "c", "a", "l", "_", "p", "o", "r", "t">>, <<"r", "e", "m", "o", "t", "e", "_", "a", "d", "d", "r", "e", "s", "s">>,
       <<"r", "e", "m", "o", "t", "e", "_", "p", "o", "r", "t">>, <<"s", "h", "a", "2", "5", "6">>, <<"s", "t", "a", "t", "e">> >>

keyExceptionKey == <<"e", "x", "c", "e", "p", "t", "i", "o", "n", "_", "k", "e", "y">>
keyNumerics == <<"n", "u", "m", "e", "r", "i", "c", "s">>

\* the line "  <key>: <val>\n"
FieldLine(k, v) == [kind |-> "field", key |-> k, val |-> v]

\* val != "" && val != "0"
NonTrivial(v) == v # <<>> /\ v # <<"0">>

\* formatColumns without the seen map: the second loop emits every key
formatColumnsNoSeen(cols) ==
    IF DOMAIN cols = {} THEN <<>>
    ELSE
        LET keys == SortStrings(DOMAIN cols)
            inFirst(k) == k \in DOMAIN cols /\ NonTrivial(cols[k])
            first == SelectSeq(priorityFields, inFirst)
            inSecond(k) ==
                /\ NonTrivial(cols[k])
                /\ k # keyExceptionKey /\ k # keyNumerics
            second == SelectSeq(keys, inSecond)
        IN  [i \in 1..Len(first) |-> FieldLine(first[i], cols[first[i]])]
            \o [i \in 1..Len(second) |-> FieldLine(second[i], cols[second[i]])]

\* the result is the sequence of the lines written to the builder; the empty
\* sequence is the empty string
formatColumns(cols) ==
    IF DOMAIN cols = {} THEN <<>>
    ELSE
        LET keys == SortStrings(DOMAIN cols)
            inFirst(k) == k \in DOMAIN cols /\ NonTrivial(cols[k])
            first == SelectSeq(priorityFields, inFirst)
            seen == {first[i] : i \in 1..Len(first)}
            inSecond(k) ==
                /\ k \notin seen
                /\ NonTrivial(cols[k])
                /\ k # keyExceptionKey /\ k # keyNumerics
            second == SelectSeq(keys, inSecond)
        IN  [i \in 1..Len(first) |-> FieldLine(first[i], cols[first[i]])]
            \o [i \in 1..Len(second) |-> FieldLine(second[i], cols[second[i]])]

-----------------------------------------------------------------------------
(* The column formatter on its own: every mapping of at most MaxColumns    *)
(* keys of ColumnKeys to values of ColumnValues is formatted once.         *)

MaxColumns == 4

ColumnKeys ==
    { <<"p", "a", "t", "h">>, <<"n", "a", "m", "e">>, <<"c", "m", "d", "l", "i", "n", "e">>, <<"s", "t", "a", "t", "e">>,
      <<"f", "i", "l", "e", "n", "a", "m", "e">>, <<"p", "i", "d">>, <<"a", "t", "i", "m", "e">>, keyExceptionKey, keyNumerics }

ColumnValues == { <<>>, <<"0">>, <<"0", "0">> }

ColumnMaps ==
    UNION {[ks -> ColumnValues] :
              ks \in {x \in SUBSET ColumnKeys : Cardinality(x) <= MaxColumns}}

InitColumns ==
    /\ pc = "format"
    /\ columns \in ColumnMaps
    /\ formatted = <<>>
    /\ method = Nil /\ body = NoBody /\ notification = <<>> /\ posts = <<>>
    /\ ntfyResult = NoResult /\ status = 0
    /\ fullName = <<>> /\ parsed = Nil
    /\ category = <<>> /\ priority = 0 /\ tags = <<>>

FormatColumns ==
    /\ pc = "format"
    /\ formatted' = formatColumns(columns)
    /\ pc' = "formatted"
    /\ UNCHANGED <<columns, handlerVars, parseVars, classifyVars>>

SpecColumns == InitColumns /\ [][FormatColumns]_vars

-----------------------------------------------------------------------------
(* Claims about formatColumns *)

IsPriorityField(k) == \E i \in 1..Len(priorityFields) : priorityFields[i] = k

priorityRank(k) == CHOOSE i \in 1..Len(priorityFields) : priorityFields[i] = k

\* C8: no line for a value "" or "0" nor for the keys exception_key and
\* numerics, at most one line per key, every priority-listed key with a
\* non-trivial value emitted in the priority order and before every other
\* key, the other keys in ascending lexicographic order, and the empty
\* string for the empty mapping.
C8_FormatColumnsLines ==
    pc = "formatted" =>
        /\ \A i \in 1..Len(formatted) :
              /\ formatted[i].key \in DOMAIN columns
              /\ formatted[i].val = columns[formatted[i].key]
              /\ formatted[i].val # <<>> /\ formatted[i].val # <<"0">>
              /\ formatted[i].key # keyExceptionKey
              /\ formatted[i].key # keyNumerics
        /\ \A i \in 1..Len(formatted), j \in 1..Len(formatted) :
              i < j =>
                  LET a == formatted[i].key
                      b == formatted[j].key
                  IN  /\ a # b
                      /\ IsPriorityField(b) =>
                            IsPriorityField(a) /\ priorityRank(a) < priorityRank(b)
                      /\ (~IsPriorityField(a) /\ ~IsPriorityField(b)) =>
                            StringLess(a, b)
        /\ \A k \in DOMAIN columns :
              ( /\ columns[k] # <<>> /\ columns[k] # <<"0">>
                /\ k # keyExceptionKey /\ k # keyNumerics ) =>
                  \E i \in 1..Len(formatted) : formatted[i].key = k
        /\ DOMAIN columns = {} => formatted = <<>>

\* C8 witness: two priority keys whose priority order is not their
\* lexicographic order, then two other keys, with a "0" value and a noisy
\* key left out
C8_Witness ==
    /\ pc = "formatted"
    /\ Len(formatted) = 2
    /\ formatted[1].key = <<"p", "a", "t", "h">>
    /\ formatted[2].key = <<"n", "a", "m", "e">>
    /\ <<"p", "i", "d">> \in DOMAIN columns /\ columns[<<"p", "i", "d">>] = <<"0">>
    /\ keyNumerics \in DOMAIN columns /\ columns[keyNumerics] = <<"0", "0">>

\* C8 witness, second case: the keys outside the priority list come after
\* the priority key, in lexicographic order
C8_WitnessOthers ==
    /\ pc = "formatted"
    /\ Len(formatted) = 3
    /\ formatted[1].key = <<"s", "t", "a", "t", "e">>
    /\ formatted[2].key = <<"a", "t", "i", "m", "e">>
    /\ formatted[3].key = <<"f", "i", "l", "e", "n", "a", "m", "e">>

-----------------------------------------------------------------------------
(* formatNotification *)

\* the lines formatNotification writes
TextLine(label, v) == [kind |-> "text", label |-> label, val |-> v]
BlankLine == [kind |-> "blank"]
\* "[<symbol> <action>]\n"; "-" stands for the minus sign U+2212
SectionLine(symbol, action) ==
    [kind |-> "section", symbol |-> symbol, action |-> action]
\* "<bullet> <identifier>\n"
BulletLine(v) == [kind |-> "bullet", val |-> v]

HasVal(line) == line.kind \in {"text", "bullet", "field"}

identifierFields ==
    << <<"p", "a", "t", "h">>, <<"n", "a", "m", "e">>, <<"f", "i", "l", "e", "n", "a", "m", "e">>, <<"c", "m", "d", "l", "i", "n", "e">>, <<"c", "o", "m", "m", "a", "n", "d">> >>

getIdentifier(cols) ==
    LET found(k) == k \in DOMAIN cols /\ cols[k] # <<>>
        hits == SelectSeq(identifierFields, found)
    IN  IF hits = <<>> THEN <<>> ELSE cols[Head(hits)]

\* grouped[d.Action] = []Detail{d} in place of append: the last Detail only
groupDetailsByActionKeepLast(details) ==
    [a \in {details[i].Action : i \in 1..Len(details)} |->
        LET has(d) == d.Action = a
            ds == SelectSeq(details, has)
        IN  <<ds[Len(ds)]>>]

\* the map from each action that occurs to its Details, in input order
groupDetailsByAction(details) ==
    [a \in {details[i].Action : i \in 1..Len(details)} |->
        LET has(d) == d.Action = a IN SelectSeq(details, has)]

\* s without its trailing white space
RECURSIVE TrimRight(_)
TrimRight(s) ==
    IF s # <<>> /\ unicodeIsSpace(s[Len(s)])
    THEN TrimRight(SubSeq(s, 1, Len(s) - 1))
    ELSE s

RECURSIVE dropTrailingBlank(_)
dropTrailingBlank(lines) ==
    IF lines # <<>> /\ lines[Len(lines)].kind = "blank"
    THEN dropTrailingBlank(SubSeq(lines, 1, Len(lines) - 1))
    ELSE lines

RECURSIVE dropLeadingBlank(_)
dropLeadingBlank(lines) ==
    IF lines # <<>> /\ Head(lines).kind = "blank"
    THEN dropLeadingBlank(Tail(lines))
    ELSE lines

\* strings.TrimSpace on a text given by its lines: the blank lines at both
\* ends go, and so does the white space that ends the last line (with the
\* separator before an all-white value).  The first line the program writes
\* starts with "H", so nothing is cut from its front.
TrimSpace(lines) ==
    LET kept == dropLeadingBlank(dropTrailingBlank(lines))
        n == Len(kept)
    IN  IF n > 0 /\ HasVal(kept[n])
        THEN [kept EXCEPT ![n].val = TrimRight(@)]
        ELSE kept

\* the lines written for one Detail of a section
detailBlock(detail) ==
    LET identifier == getIdentifier(detail.Columns)
    IN  (IF identifier # <<>> THEN <<BulletLine(identifier)>> ELSE <<>>)
        \o formatColumns(detail.Columns)
        \o <<BlankLine>>

RECURSIVE detailBlocks(_)
detailBlocks(details) ==
    IF details = <<>> THEN <<>>
    ELSE detailBlock(Head(details)) \o detailBlocks(Tail(details))

\* the order of the sections
sectionOrderAddedFirst == <<"added", "removed">>

sectionOrder == <<"removed", "added">>

\* one pass of the loop over the sections
sectionLines(grouped, action) ==
    IF action \notin DOMAIN grouped THEN <<>>
    ELSE <<SectionLine(IF action = "added" THEN "+" ELSE "-", action)>>
         \o detailBlocks(grouped[action])

\* the Detail the header is taken from
headerDetailLast(details) == details[Len(details)]

headerDetail(details) == details[1]

config == [NtfyTopic |-> "fleet-alerts"]

formatNotification(payload, cfg) ==
    IF Len(payload.Details) = 0 THEN <<>>
    ELSE
        LET first == headerDetail(payload.Details)
            hostname == IF first.Decorations.Hostname = <<>>
                        THEN first.HostIdentifier
                        ELSE first.Decorations.Hostname
            q == parseQueryName(first.Name)
            title == q.name \o <<" ", "-", " ">> \o hostname
            header == << TextLine("Host", hostname),
                         TextLine("Detection", q.category),
                         TextLine("Time", first.CalendarTime),
                         BlankLine >>
            grouped == groupDetailsByAction(payload.Details)
            msg == header
                   \o sectionLines(grouped, sectionOrder[1])
                   \o sectionLines(grouped, sectionOrder[2])
        IN  << [ Topic |-> cfg.NtfyTopic,
                 Title |-> title,
                 Message |-> TrimSpace(msg),
                 Priority |-> getPriority(q.category),
                 Tags |-> getTags(q.category) ] >>

-----------------------------------------------------------------------------
(* Details the specifications below draw their payloads from *)

colsPath == (<<"p", "a", "t", "h">> :> <<"/", "x">>)
\* a value that ends in a space, and a "0" that is left out
colsName == (<<"n", "a", "m", "e">> :> <<"n", " ">>) @@ (<<"p", "i", "d">> :> <<"0">>)
\* no identifier field: no bullet line
colsAtime == (<<"a", "t", "i", "m", "e">> :> <<"1">>)
\* nothing to render
colsEmpty == <<>>

Actions == {"added", "removed", "modified"}

\* name, host and time of a Detail: a bracketed name with a decorated
\* hostname, and a plain name with neither hostname nor time
Heads ==
    { [ Name |-> <<"g", "/", "[", "p", "e", "r", "s", "i", "s", "t", "e", "n", "c", "e", "]", " ", "q">>, Hostname |-> <<"h", "1">>,
        HostIdentifier |-> <<"i", "d", "1">>, CalendarTime |-> <<"t", "1">> ],
      [ Name |-> <<"g", "/", "r">>, Hostname |-> <<>>,
        HostIdentifier |-> <<"i", "d", "2">>, CalendarTime |-> <<>> ] }

Detail(action, cols, head) ==
    [ Action |-> action,
      CalendarTime |-> head.CalendarTime,
      Columns |-> cols,
      Decorations |-> [Hostname |-> head.Hostname],
      HostIdentifier |-> head.HostIdentifier,
      Name |-> head.Name ]

Payload(details) == [kind |-> "payload", Details |-> details]

IsHandled(d) == d.Action \in {"removed", "added"}

-----------------------------------------------------------------------------
(* The notification builder on its own: every payload of at most           *)
(* MaxBuilderDetails Details is formatted once.                            *)

MaxBuilderDetails == 3

BuilderDetails ==
    { Detail(a, c, h) :
        a \in Actions,
        c \in {colsPath, colsName, colsAtime, colsEmpty},
        h \in {CHOOSE x \in Heads : x.Hostname # <<>>} }

BuilderPayloads ==
    { Payload(ds) :
        ds \in UNION {[1..n -> BuilderDetails] : n \in 0..MaxBuilderDetails} }

InitBuilder ==
    /\ pc = "build"
    /\ body \in BuilderPayloads
    /\ notification = <<>>
    /\ method = Nil /\ posts = <<>> /\ ntfyResult = NoResult /\ status = 0
    /\ fullName = <<>> /\ parsed = Nil
    /\ category = <<>> /\ priority = 0 /\ tags = <<>>
    /\ columns = <<>> /\ formatted = <<>>

FormatNotification ==
    /\ pc = "build"
    /\ notification' = formatNotification(body, config)
    /\ pc' = "built"
    /\ UNCHANGED <<method, body, posts, ntfyResult, status,
                   parseVars, classifyVars, columnVars>>

SpecBuilder == InitBuilder /\ [][FormatNotification]_vars

-----------------------------------------------------------------------------
(* The webhook handler: one request at a time is received, answered at     *)
(* once or after the POST to ntfy has returned, and then the next one is   *)
(* taken.  Handlers share no state, so concurrent requests do not interact.*)

MaxDetails == 2

HandlerDetails ==
    { Detail(a, c, h) : a \in Actions, c \in {colsPath, colsEmpty}, h \in Heads }

Bodies ==
    { [kind |-> "unreadable", Details |-> <<>>],
      [kind |-> "malformed", Details |-> <<>>] }
    \cup { Payload(ds) :
             ds \in UNION {[1..n -> HandlerDetails] : n \in 0..MaxDetails} }

Methods == {"POST", "GET"}

\* what http.Post returns: an error, or a response with a status code
PostResults ==
    { [kind |-> "network error", code |-> 0] }
    \cup { [kind |-> "response", code |-> c] : c \in {200, 399, 400, 500} }

\* sendToNtfy's test of what http.Post returned
sendFailedAbove400(r) == r.kind # "response" \/ r.code > 400

sendFailed(r) == r.kind # "response" \/ r.code >= 400

Init ==
    /\ pc = "idle"
    /\ method = Nil /\ body = NoBody
    /\ notification = <<>> /\ posts = <<>>
    /\ ntfyResult = NoResult /\ status = 0
    /\ fullName = <<>> /\ parsed = Nil
    /\ category = <<>> /\ priority = 0 /\ tags = <<>>
    /\ columns = <<>> /\ formatted = <<>>

\* the handler with the method test left out
ReceiveAnyMethod(m, b, marshalOk) ==
    /\ pc = "idle"
    /\ method' = m
    /\ body' = b
    /\ IF b.kind # "payload"
       THEN /\ status' = 400 /\ pc' = "done"
            /\ UNCHANGED <<notification, posts, ntfyResult>>
       ELSE LET n == formatNotification(b, config)
            IN  /\ notification' = n
                /\ IF n = <<>>
                   THEN /\ status' = 200 /\ pc' = "done"
                        /\ UNCHANGED <<posts, ntfyResult>>
                   ELSE IF ~marshalOk
                   THEN /\ ntfyResult' = [kind |-> "marshal error", code |-> 0]
                        /\ status' = 500 /\ pc' = "done"
                        /\ UNCHANGED posts
                   ELSE /\ posts' = Append(posts, n[1])
                        /\ pc' = "posting"
                        /\ UNCHANGED <<ntfyResult, status>>
    /\ UNCHANGED <<parseVars, classifyVars, columnVars>>

\* webhookHandler from its entry to its answer or, when it sends, to the
\* http.Post call of sendToNtfy; marshalOk is whether json.Marshal succeeds
Receive(m, b, marshalOk) ==
    /\ pc = "idle"
    /\ method' = m
    /\ body' = b
    /\ IF m # "POST"
       THEN /\ status' = 405 /\ pc' = "done"
            /\ UNCHANGED <<notification, posts, ntfyResult>>
       ELSE IF b.kind # "payload"
       THEN /\ status' = 400 /\ pc' = "done"
            /\ UNCHANGED <<notification, posts, ntfyResult>>
       ELSE LET n == formatNotification(b, config)
            IN  /\ notification' = n
                /\ IF n = <<>>
                   THEN /\ status' = 200 /\ pc' = "done"
                        /\ UNCHANGED <<posts, ntfyResult>>
                   ELSE IF ~marshalOk
                   THEN /\ ntfyResult' = [kind |-> "marshal error", code |-> 0]
                        /\ status' = 500 /\ pc' = "done"
                        /\ UNCHANGED posts
                   ELSE /\ posts' = Append(posts, n[1])
                        /\ pc' = "posting"
                        /\ UNCHANGED <<ntfyResult, status>>
    /\ UNCHANGED <<parseVars, classifyVars, columnVars>>

\* http.Post returns r: the rest of sendToNtfy and of the handler
PostReturns(r) ==
    /\ pc = "posting"
    /\ ntfyResult' = r
    /\ status' = IF sendFailed(r) THEN 500 ELSE 200
    /\ pc' = "done"
    /\ UNCHANGED <<method, body, notification, posts,
                   parseVars, classifyVars, columnVars>>

\* the request is over; the server takes the next one
NextRequest ==
    /\ pc = "done"
    /\ pc' = "idle"
    /\ method' = Nil /\ body' = NoBody
    /\ notification' = <<>> /\ posts' = <<>>
    /\ ntfyResult' = NoResult /\ status' = 0
    /\ UNCHANGED <<parseVars, classifyVars, columnVars>>

Next ==
    \/ \E m \in Methods, b \in Bodies, ok \in BOOLEAN : Receive(m, b, ok)
    \/ \E r \in PostResults : PostReturns(r)
    \/ NextRequest

Spec == Init /\ [][Next]_vars

-----------------------------------------------------------------------------
(* Claims about the handler *)

IsPayload(b) == b.kind = "payload"

\* C1: a request leads to at most one outbound POST, and to none when its
\* method is not POST (answered 405), when its body is no decodable payload
\* (answered 400) or when the payload has no Details (answered 200).
C1_AtMostOnePost ==
    /\ Len(posts) <= 1
    /\ (pc # "idle" /\ method # "POST") =>
          status = 405 /\ posts = <<>>
    /\ (pc # "idle" /\ method = "POST" /\ ~IsPayload(body)) =>
          status = 400 /\ posts = <<>>
    /\ (pc # "idle" /\ method = "POST" /\ IsPayload(body)
          /\ body.Details = <<>>) =>
          status = 200 /\ posts = <<>>

\* C1 witness: a POST whose payload has no Details was answered 200 with no
\* outbound POST
C1_Witness ==
    /\ pc = "done"
    /\ method = "POST"
    /\ IsPayload(body) /\ body.Details = <<>>
    /\ status = 200
    /\ posts = <<>>

\* C2: a POST with a decodable payload of at least one Detail is answered
\* 200 exactly when the one outbound call returned a response with a status
\* below 400; a network failure, a serialization failure or a status of 400
\* or above is answered 500, and the call is never made a second time.
C2_AnswerFollowsDelivery ==
    ( /\ pc = "done" /\ method = "POST"
      /\ IsPayload(body) /\ body.Details # <<>> ) =>
        /\ status \in {200, 500}
        /\ status = 200 <=>
              ( /\ Len(posts) = 1
                /\ ntfyResult.kind = "response"
                /\ ntfyResult.code < 400 )
        /\ ( \/ ntfyResult.kind \in {"network error", "marshal error"}
             \/ ntfyResult.code >= 400 ) => status = 500
        /\ Len(posts) <= 1

\* C2 witness: ntfy answered 400 to the one POST and the handler answered 500
C2_Witness ==
    /\ pc = "done"
    /\ method = "POST"
    /\ Len(posts) = 1
    /\ ntfyResult = [kind |-> "response", code |-> 400]
    /\ status = 500

-----------------------------------------------------------------------------
(* Claims about formatNotification *)

\* the Details of the payload with action a, in input order
DetailsOf(a) == LET has(d) == d.Action = a IN SelectSeq(body.Details, has)

\* the bullet and field lines one Detail is to be rendered as
ExpectedBlock(d) ==
    (IF getIdentifier(d.Columns) # <<>>
     THEN <<BulletLine(getIdentifier(d.Columns))>> ELSE <<>>)
    \o formatColumns(d.Columns)

RECURSIVE ExpectedLineCount(_)
ExpectedLineCount(ds) ==
    IF ds = <<>> THEN 0
    ELSE Len(ExpectedBlock(Head(ds))) + ExpectedLineCount(Tail(ds))

IsDetailLine(line) == line.kind \in {"bullet", "field"}

\* the number of bullet and field lines of M at the indexes from..to
DetailLineCount(M, from, to) ==
    Cardinality({k \in from..to : IsDetailLine(M[k])})

SectionIndexes(M, a) ==
    {k \in 1..Len(M) : M[k].kind = "section" /\ M[k].action = a}

\* C3: with a "removed" and an "added" Detail in the payload, in any order,
\* the message holds the [- removed] header before the [+ added] header and
\* every rendered removed Detail before every rendered added Detail.
C3_RemovedSectionFirst ==
    ( /\ pc = "built"
      /\ DetailsOf("removed") # <<>>
      /\ DetailsOf("added") # <<>> ) =>
        LET M == notification[1].Message
        IN  /\ Cardinality(SectionIndexes(M, "removed")) = 1
            /\ Cardinality(SectionIndexes(M, "added")) = 1
            /\ LET i == CHOOSE k \in SectionIndexes(M, "removed") : TRUE
                   j == CHOOSE k \in SectionIndexes(M, "added") : TRUE
               IN  /\ i < j
                   /\ M[i] = SectionLine("-", "removed")
                   /\ M[j] = SectionLine("+", "added")
                   /\ DetailLineCount(M, 1, i) = 0
                   /\ DetailLineCount(M, i, j)
                        = ExpectedLineCount(DetailsOf("removed"))
                   /\ DetailLineCount(M, j, Len(M))
                        = ExpectedLineCount(DetailsOf("added"))

\* C3 witness: an added Detail, then a removed one, then an added one, all
\* with lines to render, and the removed section comes first
C3_Witness ==
    /\ pc = "built"
    /\ Len(body.Details) = 3
    /\ body.Details[1].Action = "added"
    /\ body.Details[2].Action = "removed"
    /\ body.Details[3].Action = "added"
    /\ \A k \in 1..3 : body.Details[k].Columns # colsEmpty
    /\ notification[1].Message[5] = SectionLine("-", "removed")

\* the lines of M under the section of action a, up to the next section
SectionContent(M, a) ==
    IF SectionIndexes(M, a) = {} THEN <<>>
    ELSE LET i == CHOOSE k \in SectionIndexes(M, a) : TRUE
             later == {k \in (i + 1)..Len(M) : M[k].kind = "section"}
             last == IF later = {} THEN Len(M)
                     ELSE (CHOOSE k \in later : \A h \in later : k <= h) - 1
         IN  SubSeq(M, i + 1, last)

\* lines cut into blocks: a blank line ends a block, and lines left at the
\* end are a block without its blank line
RECURSIVE SplitBlocks(_, _)
SplitBlocks(lines, cur) ==
    IF lines = <<>> THEN (IF cur = <<>> THEN <<>> ELSE <<cur>>)
    ELSE IF Head(lines).kind = "blank"
         THEN <<cur>> \o SplitBlocks(Tail(lines), <<>>)
         ELSE SplitBlocks(Tail(lines), Append(cur, Head(lines)))

\* the Detail blocks the message shows under the section of action a
MessageBlocks(M, a) == SplitBlocks(SectionContent(M, a), <<>>)

ExpectedBlocks(a) ==
    [n \in 1..Len(DetailsOf(a)) |-> ExpectedBlock(DetailsOf(a)[n])]

\* a block with the white space at its very end cut
TrimBlock(b) ==
    IF b = <<>> THEN b ELSE [b EXCEPT ![Len(b)].val = TrimRight(@)]

\* the section the message ends with
LastSection == IF DetailsOf("added") # <<>> THEN "added" ELSE "removed"

\* the blocks shown are the blocks expected, the last block of the message
\* being compared without its trailing white space
SameBlocks(shown, expected, a) ==
    /\ Len(shown) = Len(expected)
    /\ \A n \in 1..Len(shown) :
          IF a = LastSection /\ n = Len(shown)
          THEN TrimBlock(shown[n]) = TrimBlock(expected[n])
          ELSE shown[n] = expected[n]

RECURSIVE DropTrailingEmpty(_)
DropTrailingEmpty(blocks) ==
    IF blocks # <<>> /\ blocks[Len(blocks)] = <<>>
    THEN DropTrailingEmpty(SubSeq(blocks, 1, Len(blocks) - 1))
    ELSE blocks

\* C9 as stated: under each of the two sections the message shows one block
\* for every Detail of that action, in input order, so that the number of
\* blocks is the number of Details with action added or removed.
C9_EveryDetailShown ==
    pc = "built" /\ notification # <<>> =>
        \A a \in {"removed", "added"} :
            SameBlocks(MessageBlocks(notification[1].Message, a),
                       ExpectedBlocks(a), a)

\* C9 amended: under each of the two sections the message shows one block
\* for every Detail of that action, in input order, except that the Details
\* at the end of the last section that render no line (no identifier, no
\* non-trivial column) leave no block: the message is trimmed.  The number
\* of blocks is the number of Details with action added or removed less
\* those trailing Details.
C9_EveryDetailShownButTrailingEmpty ==
    pc = "built" /\ notification # <<>> =>
        \A a \in {"removed", "added"} :
            SameBlocks(MessageBlocks(notification[1].Message, a),
                       IF a = LastSection
                       THEN DropTrailingEmpty(ExpectedBlocks(a))
                       ELSE ExpectedBlocks(a),
                       a)

\* C9 witness: two added Details with different lines around a removed one
\* are shown under [+ added] in input order, the removed one under
\* [- removed]
C9_Witness ==
    /\ pc = "built"
    /\ Len(body.Details) = 3
    /\ body.Details[1].Action = "added"
    /\ body.Details[2].Action = "removed"
    /\ body.Details[3].Action = "added"
    /\ body.Details[1].Columns = colsPath
    /\ body.Details[2].Columns = colsAtime
    /\ body.Details[3].Columns = colsName
    /\ LET M == notification[1].Message
       IN  /\ Len(MessageBlocks(M, "added")) = 2
           /\ MessageBlocks(M, "added")[1] = ExpectedBlock(body.Details[1])
           /\ MessageBlocks(M, "removed") = <<ExpectedBlock(body.Details[2])>>

\* C10: a Detail whose action is neither added nor removed adds no section,
\* bullet or field line; a non-empty payload still gives one Notification
\* (and one outbound call, json.Marshal not failing) whose title, header,
\* priority and tags come from the first Detail, and whose message is the
\* three header lines when no Detail has a handled action.
C10_UnhandledActionsLeftOut ==
    ( /\ pc \in {"posting", "done"} /\ method = "POST"
      /\ IsPayload(body) /\ body.Details # <<>> ) =>
        LET first == body.Details[1]
            host == IF first.Decorations.Hostname # <<>>
                    THEN first.Decorations.Hostname
                    ELSE first.HostIdentifier
            q == parseQueryName(first.Name)
        IN  /\ Len(notification) = 1
            /\ LET n == notification[1]
                   M == n.Message
               IN  /\ n.Title = q.name \o <<" ", "-", " ">> \o host
                   /\ n.Priority = getPriority(q.category)
                   /\ n.Tags = getTags(q.category)
                   /\ Len(M) >= 3
                   /\ M[1] = TextLine("Host", host)
                   /\ M[2] = TextLine("Detection", q.category)
                   /\ M[3] = TextLine("Time",
                                IF Len(M) = 3
                                THEN TrimRight(first.CalendarTime)
                                ELSE first.CalendarTime)
                   /\ \A k \in 1..Len(M) :
                         M[k].kind = "section" =>
                             M[k].action \in {"removed", "added"}
                   /\ DetailLineCount(M, 1, Len(M))
                        = ExpectedLineCount(DetailsOf("removed"))
                          + ExpectedLineCount(DetailsOf("added"))
                   /\ (\A k \in 1..Len(body.Details) :
                          ~IsHandled(body.Details[k])) => Len(M) = 3
                   /\ ntfyResult.kind # "marshal error" => posts = <<n>>

\* C10 witness: a payload whose first Detail is "modified" and whose second
\* Detail, of another query and host, is "modified" too was sent as one
\* notification of three lines
C10_Witness ==
    /\ pc = "done"
    /\ Len(body.Details) = 2
    /\ body.Details[1].Action = "modified"
    /\ body.Details[2].Action = "modified"
    /\ body.Details[1].Name # body.Details[2].Name
    /\ body.Details[1].Columns = colsPath
    /\ Len(posts) = 1
    /\ Len(posts[1].Message) = 3
    /\ status = 200

=============================================================================
